---------------------------- MODULE Spec2Model ----------------------------
(***************************************************************************)
(* Ping Poller: the ping sampling and statistics engine.                   *)
(*                                                                         *)
(*   PingDataManager (src/data_manager.py)  the Sample Store               *)
(*   PingWorker      (src/network_utils.py) the Sampling Loop threads      *)
(*   PingPoller      (src/main.py)          the session controller, which  *)
(*                                          runs in the GUI thread and     *)
(*                                          receives the worker's signals  *)
(*                                          through Qt's event queue       *)
(*                                                                         *)
(* Latencies are whole milliseconds, times are whole clock ticks.  Python  *)
(* floats that are quotients are kept as exact fractions [num, den]; the   *)
(* standard deviation is kept as the fraction under its square root.       *)
(***************************************************************************)
EXTENDS Integers, Sequences, FiniteSets, TLC

\* ------------------------------------------------------------------ bounds
\* capacities of a small store, which every short sequence of calls is tried
\* on: the history deques and the recent-pings deque
HistCap == 3
RecentCap == 2
\* successes recorded since the last clear, at most: in the small store, and
\* beyond its capacity in the store of the program's size
MaxSamples == 5
MaxOverflow == 2
\* failures recorded since the last clear, at most
MaxFailures == 2
\* the clock stops here
MaxClock == 2
\* sampling-loop threads ever started (one per started session), at most
MaxThreads == 2
\* probes issued by all loops together, at most
MaxProbes == 3
\* notifications waiting in the GUI thread's event queue, at most
MaxQueue == 2

\* --------------------------------------------------------- program values
\* AppConfig.MAX_PING_HISTORY
MAX_PING_HISTORY == 1000
\* AppConfig.MAX_RECENT_PINGS
MAX_RECENT_PINGS == 100
\* Python's None (no latency, no start time); every real value is >= 0
None == -1
\* float('inf'), the "no data yet" value of min_ping: above every latency
Inf == 1000000
\* round-trip times a probe can report, in ms
Latencies == {10, 30}
\* latencies and elapsed times handed to the store when it is driven on its
\* own
StoreLatencies == {10, 20, 30}
StoreTimes == {0, 2}
\* what the user can have typed into the target field
DomainTexts == { <<>>, <<" ">>, <<"a">>, <<" ", "b", " ">> }
\* the duration spin box, in clock ticks
Durations == {1, 2}
\* the interval spin box
Intervals == {1}
\* AppConfig.DEFAULT_FOLLOW_WINDOW, in seconds
DEFAULT_FOLLOW_WINDOW == 10
\* the follow-window spin box (5 to 60 s)
FollowWindows == {5, 10}
\* the x ranges a user's zoom or pan can leave the chart with, in seconds
UserXRanges == { <<0, 1>>, <<0, 5>>, <<6, 12>>, <<0, 19>> }
\* the y range such a zoom or pan leaves, in ms
UserYRange == <<0, 100>>
\* when the handlers are driven on their own: the instants at which the
\* clock is read, in seconds
ViewInstants == {0, 5, 12, 18}
\* the latencies get_ping_quality_status is asked about go from 0 to this
MaxQualityInput == 250
\* connectivity tests in one behaviour
MaxTests == 3
\* items in the output of one ping command
MaxStdout == 4
\* exports in one behaviour
MaxExports == 2

\* ---------------------------------------------------------------- helpers
Min2(a, b) == IF a <= b THEN a ELSE b
Max2(a, b) == IF a >= b THEN a ELSE b

RECURSIVE SeqSum(_)
SeqSum(s) == IF s = <<>> THEN 0 ELSE Head(s) + SeqSum(Tail(s))

\* the last k elements of s (all of s when it is shorter)
LastN(s, k) == IF Len(s) <= k THEN s ELSE SubSeq(s, Len(s) - k + 1, Len(s))

\* a Python float that is the quotient a / b, kept exact
Frac(a, b) == [num |-> a, den |-> b]
\* the int 0 the code returns in place of a quotient
Zero == Frac(0, 1)

RECURSIVE GCD(_, _)
GCD(a, b) == IF b = 0 THEN a ELSE GCD(b, a % b)
\* two fractions are the same number (denominators positive)
SameNumber(f, g) ==
    LET df == GCD(f.num, f.den)
        dg == GCD(g.num, g.den)
    IN /\ f.den > 0 /\ g.den > 0
       /\ f.num \div df = g.num \div dg
       /\ f.den \div df = g.den \div dg

\* arithmetic of such floats, exact; every result is in lowest terms
Norm(f) == LET d == GCD(f.num, f.den) IN Frac(f.num \div d, f.den \div d)
FInt(n) == Frac(n, 1)
FAdd(f, g) == Norm(Frac(f.num * g.den + g.num * f.den, f.den * g.den))
FSub(f, g) == Norm(Frac(f.num * g.den - g.num * f.den, f.den * g.den))
FMul(f, g) == Norm(Frac(f.num * g.num, f.den * g.den))
FLt(f, g) == f.num * g.den < g.num * f.den
FMax(f, g) == IF FLt(f, g) THEN g ELSE f
FAbs(f) == IF f.num < 0 THEN Frac(0 - f.num, f.den) ELSE f
\* the float literals 0.05 and 0.1
Float005 == Frac(1, 20)
Float01 == Frac(1, 10)
\* min() and max() of a non-empty list of ints
ListMin(s) == CHOOSE x \in {s[i] : i \in 1..Len(s)} : \A i \in 1..Len(s) : x <= s[i]
ListMax(s) == CHOOSE x \in {s[i] : i \in 1..Len(s)} : \A i \in 1..Len(s) : x >= s[i]

\* ------------------------------------------------ collections.deque(maxlen)
\* a list's append: nothing is ever dropped
deque_append_unbounded(d, x, maxlen) == Append(d, x)

\* deque.append: the new item goes on the right; a full deque drops its
\* leftmost item
deque_append(d, x, maxlen) ==
    LET a == Append(d, x) IN IF Len(a) > maxlen THEN Tail(a) ELSE a

\* ------------------------------------------------------- PingDataManager
\* __init__: the object after construction, with the given deque capacities
PingDataManager(max_history, max_recent) ==
    [ ping_times      |-> <<>>,
      timestamps      |-> <<>>,
      start_time      |-> None,
      ping_count      |-> 0,
      failed_count    |-> 0,
      total_ping_time |-> 0,
      min_ping        |-> Inf,
      max_ping        |-> 0,
      recent_pings    |-> <<>>,
      max_history     |-> max_history,
      max_recent      |-> max_recent ]

\* clear_data that leaves the start time of the last session in place
clear_data_keeps_start_time(self) ==
    [ self EXCEPT !.ping_times = <<>>,
                  !.timestamps = <<>>,
                  !.ping_count = 0,
                  !.failed_count = 0,
                  !.total_ping_time = 0,
                  !.min_ping = Inf,
                  !.max_ping = 0,
                  !.recent_pings = <<>> ]

clear_data(self) ==
    [ self EXCEPT !.ping_times = <<>>,
                  !.timestamps = <<>>,
                  !.ping_count = 0,
                  !.failed_count = 0,
                  !.total_ping_time = 0,
                  !.min_ping = Inf,
                  !.max_ping = 0,
                  !.recent_pings = <<>>,
                  !.start_time = None ]

\* add_ping_result with recent_pings as long as the history
add_ping_result_one_capacity(self, ping_time, current_time) ==
    [ self EXCEPT !.ping_times = deque_append(@, ping_time, self.max_history),
                  !.timestamps = deque_append(@, current_time, self.max_history),
                  !.ping_count = @ + 1,
                  !.total_ping_time = @ + ping_time,
                  !.recent_pings = deque_append(@, ping_time, self.max_history),
                  !.min_ping = Min2(@, ping_time),
                  !.max_ping = Max2(@, ping_time) ]

\* add_ping_result with min and max taken over the history deque
add_ping_result_minmax_of_history(self, ping_time, current_time) ==
    LET h == deque_append(self.ping_times, ping_time, self.max_history)
        least == CHOOSE x \in {h[i] : i \in 1..Len(h)} :
                     \A i \in 1..Len(h) : x <= h[i]
        most == CHOOSE x \in {h[i] : i \in 1..Len(h)} :
                     \A i \in 1..Len(h) : x >= h[i]
    IN [ self EXCEPT !.ping_times = h,
                     !.timestamps = deque_append(@, current_time, self.max_history),
                     !.ping_count = @ + 1,
                     !.total_ping_time = @ + ping_time,
                     !.recent_pings = deque_append(@, ping_time, self.max_recent),
                     !.min_ping = least,
                     !.max_ping = most ]

add_ping_result(self, ping_time, current_time) ==
    [ self EXCEPT !.ping_times = deque_append(@, ping_time, self.max_history),
                  !.timestamps = deque_append(@, current_time, self.max_history),
                  !.ping_count = @ + 1,
                  !.total_ping_time = @ + ping_time,
                  !.recent_pings = deque_append(@, ping_time, self.max_recent),
                  !.min_ping = Min2(@, ping_time),
                  !.max_ping = Max2(@, ping_time) ]

add_ping_failure(self) ==
    [ self EXCEPT !.failed_count = @ + 1 ]

\* set_start_time that stores nothing
set_start_time_not_stored(self, start_time) == self
set_start_time(self, start_time) ==
    [ self EXCEPT !.start_time = start_time ]

\* has_data that counts the failed attempts too
has_data_any_attempt(self) == self.ping_count + self.failed_count > 0

has_data(self) == Len(self.ping_times) > 0

\* get_data_arrays: the two deques as lists, (timestamps, ping_times)
get_data_arrays(self) == << self.timestamps, self.ping_times >>

\* get_basic_statistics with the loss taken over the successes alone
get_basic_statistics_per_success(self) ==
    LET avg_ping == IF self.ping_count > 0
                    THEN Frac(self.total_ping_time, self.ping_count)
                    ELSE Zero
        packet_loss == IF self.ping_count > 0
                       THEN Frac(self.failed_count * 100, self.ping_count)
                       ELSE Zero
    IN [ current_ping |-> IF self.ping_times # <<>>
                          THEN self.ping_times[Len(self.ping_times)]
                          ELSE 0,
         avg_ping     |-> avg_ping,
         packet_loss  |-> packet_loss,
         ping_count   |-> self.ping_count ]

\* get_basic_statistics with the average taken over all attempts
get_basic_statistics_avg_of_attempts(self) ==
    LET total_attempts == self.ping_count + self.failed_count
        avg_ping == IF total_attempts > 0
                    THEN Frac(self.total_ping_time, total_attempts)
                    ELSE Zero
        packet_loss == IF total_attempts > 0
                       THEN Frac(self.failed_count * 100, total_attempts)
                       ELSE Zero
    IN [ current_ping |-> IF self.ping_times # <<>>
                          THEN self.ping_times[Len(self.ping_times)]
                          ELSE 0,
         avg_ping     |-> avg_ping,
         packet_loss  |-> packet_loss,
         ping_count   |-> self.ping_count ]

get_basic_statistics(self) ==
    LET avg_ping == IF self.ping_count > 0
                    THEN Frac(self.total_ping_time, self.ping_count)
                    ELSE Zero
        total_attempts == self.ping_count + self.failed_count
        packet_loss == IF total_attempts > 0
                       THEN Frac(self.failed_count * 100, total_attempts)
                       ELSE Zero
    IN [ current_ping |-> IF self.ping_times # <<>>
                          THEN self.ping_times[Len(self.ping_times)]
                          ELSE 0,
         avg_ping     |-> avg_ping,
         packet_loss  |-> packet_loss,
         ping_count   |-> self.ping_count ]

\* numpy.std(a, ddof=1): the sample standard deviation, over N - 1
np_std_ddof1(a) ==
    LET N == Len(a)
        S == SeqSum(a)
        dev2 == [i \in 1..N |-> (N * a[i] - S) * (N * a[i] - S)]
    IN [ sq |-> Frac(SeqSum(dev2), N * N * (N - 1)) ]

\* numpy.std(a), ddof = 0: sqrt(mean(abs(a - a.mean())**2)).  With N = len(a)
\* and S = sum(a), a[i] - mean = (N*a[i] - S)/N, so the mean of the squares is
\* sum((N*a[i] - S)^2) / N^3.  The result is the square root of sq.
np_std(a) ==
    LET N == Len(a)
        S == SeqSum(a)
        dev2 == [i \in 1..N |-> (N * a[i] - S) * (N * a[i] - S)]
    IN [ sq |-> Frac(SeqSum(dev2), N * N * N) ]

\* get_advanced_statistics handing out min_ping as stored
get_advanced_statistics_raw_min(self) ==
    LET jitter == IF Len(self.recent_pings) >= 2
                  THEN np_std(self.recent_pings)
                  ELSE [ sq |-> Zero ]
    IN [ min_ping |-> self.min_ping,
         max_ping |-> self.max_ping,
         jitter   |-> jitter ]

get_advanced_statistics(self) ==
    LET jitter == IF Len(self.recent_pings) >= 2
                  THEN np_std(self.recent_pings)
                  ELSE [ sq |-> Zero ]
        min_ping_value == IF self.min_ping # Inf THEN self.min_ping ELSE 0
    IN [ min_ping |-> min_ping_value,
         max_ping |-> self.max_ping,
         jitter   |-> jitter ]

\* get_ping_quality_status with the first threshold inclusive
get_ping_quality_status_upto(self, current_ping) ==
    IF current_ping <= 50 THEN << "Excellent", "#28A745" >>
    ELSE IF current_ping < 100 THEN << "Good", "#FFC107" >>
    ELSE IF current_ping < 200 THEN << "Fair", "#FD7E14" >>
    ELSE << "Poor", "#DC3545" >>

\* get_ping_quality_status: (status text, colour)
get_ping_quality_status(self, current_ping) ==
    IF current_ping < 50 THEN << "Excellent", "#28A745" >>
    ELSE IF current_ping < 100 THEN << "Good", "#FFC107" >>
    ELSE IF current_ping < 200 THEN << "Fair", "#FD7E14" >>
    ELSE << "Poor", "#DC3545" >>

\* ------------------------------------------------------------ str.strip()
RECURSIVE lstrip(_)
lstrip(s) == IF s # <<>> /\ Head(s) = " " THEN lstrip(Tail(s)) ELSE s
RECURSIVE rstrip(_)
rstrip(s) == IF s # <<>> /\ s[Len(s)] = " "
             THEN rstrip(SubSeq(s, 1, Len(s) - 1)) ELSE s
strip(s) == rstrip(lstrip(s))

\* ------------------------------------------------------------ ModernButton
\* A button is [enabled, anim]: anim is what the fade-out animation now
\* running will do to `enabled` when it finishes ("none": no animation).
\* animate_state_change keeps only the newest animation (it overwrites
\* _fade_out_anim, the one reference to the older one).
Button(enabled) == [enabled |-> enabled, anim |-> "none"]
animate_state_change(button, enabled) ==
    [button EXCEPT !.anim = IF enabled THEN "enable" ELSE "disable"]
\* on_fade_out_finished: self.setEnabled(enabled)
on_fade_out_finished(button) ==
    IF button.anim = "none" THEN button
    ELSE [enabled |-> (button.anim = "enable"), anim |-> "none"]

\* --------------------------------------------- HoverPlotWidget (the chart)
\* The view box of the chart: auto is pyqtgraph's auto-range state, xRange and
\* yRange are the range last set by the program or left by the user, as
\* <<low, high>>.  A new PlotWidget fits itself and shows [0, 1] x [0, 1].
PlotWidget == [ auto   |-> TRUE,
                xRange |-> << FInt(0), FInt(1) >>,
                yRange |-> << FInt(0), FInt(1) >> ]
\* graph_widget.enableAutoRange()
enableAutoRange(widget) == [widget EXCEPT !.auto = TRUE]
\* graph_widget.setRange(xRange=..., yRange=...): a fixed range ends auto-range
setRange(widget, xRange, yRange) ==
    [ auto |-> FALSE, xRange |-> xRange, yRange |-> yRange ]
\* viewBox.viewRange(): [[x low, x high], [y low, y high]]
viewRange(widget) == << widget.xRange, widget.yRange >>

\* the share of the data span the chart adds on each side when it fits its
\* range to the data (pyqtgraph pads by 2% to 10%, by the size of the widget)
ChartPaddings == { Frac(1, 50), Frac(1, 10) }
\* the half-width the chart shows around data without a span (pyqtgraph keeps
\* the scale it had, or takes a span of 1 or 2, by its version)
ChartZeroSpans == { Frac(1, 2), Frac(1, 1) }
\* the range the chart gives itself in auto-range: the bounds of the data,
\* padded by the share `padding` of their span on each side; data without a
\* span (one point, or equal values) is shown with `unit` on each side
fit_axis(values, padding, unit) ==
    LET lo == ListMin(values)
        hi == ListMax(values)
        pad == IF hi > lo THEN FMul(FInt(hi - lo), padding) ELSE unit
    IN << FSub(FInt(lo), pad), FAdd(FInt(hi), pad) >>
auto_fit(widget, timestamps, ping_times, padding, unit) ==
    [ auto   |-> TRUE,
      xRange |-> fit_axis(timestamps, padding, unit),
      yRange |-> fit_axis(ping_times, padding, unit) ]

\* the indices update_graph_view's loop keeps: timestamp >= window_start
VisibleFrom(timestamps, window_start) ==
    {i \in 1..Len(timestamps) : timestamps[i] >= window_start}

\* the follow branch with the latency range taken over the whole history
follow_view_whole_history(timestamps, ping_times, window) ==
    LET current_time == ListMax(timestamps)
        window_start == current_time - window
        y_min == ListMin(ping_times)
        y_max == ListMax(ping_times)
        y_padding == FMax(FMul(FInt(y_max - y_min), Float01), FInt(10))
    IN [ xRange |-> << FInt(window_start), FInt(current_time) >>,
         yRange |-> << FMax(FInt(0), FSub(FInt(y_min), y_padding)),
                       FAdd(FInt(y_max), y_padding) >> ]

\* update_graph_view, the follow branch: the arguments of setRange
follow_view(timestamps, ping_times, window) ==
    LET current_time == ListMax(timestamps)
        window_start == current_time - window
        visible == VisibleFrom(timestamps, window_start)
        visible_pings == {ping_times[i] : i \in visible}
        y_min == CHOOSE x \in visible_pings : \A y \in visible_pings : x <= y
        y_max == CHOOSE x \in visible_pings : \A y \in visible_pings : x >= y
        y_padding == FMax(FMul(FInt(y_max - y_min), Float01), FInt(10))
    IN [ xRange |-> << FInt(window_start), FInt(current_time) >>,
         yRange |-> << FMax(FInt(0), FSub(FInt(y_min), y_padding)),
                       FAdd(FInt(y_max), y_padding) >> ]

\* update_graph_view that fits to the data whenever follow mode is off
update_graph_view_always_fits(self, follow, auto, window, widget) ==
    LET timestamps == get_data_arrays(self)[1]
        ping_times == get_data_arrays(self)[2]
    IN IF timestamps = <<>> THEN widget
       ELSE IF follow
            THEN LET r == follow_view(timestamps, ping_times, window)
                 IN IF VisibleFrom(timestamps, ListMax(timestamps) - window) # {}
                    THEN setRange(widget, r.xRange, r.yRange)
                    ELSE widget
            ELSE enableAutoRange(widget)

\* update_graph_view: the chart after it, from the store self, the two mode
\* flags, the window and the chart before it
update_graph_view(self, follow, auto, window, widget) ==
    LET timestamps == get_data_arrays(self)[1]
        ping_times == get_data_arrays(self)[2]
    IN IF timestamps = <<>> THEN widget
       ELSE IF follow
            THEN LET r == follow_view(timestamps, ping_times, window)
                 IN IF VisibleFrom(timestamps, ListMax(timestamps) - window) # {}
                    THEN setRange(widget, r.xRange, r.yRange)
                    ELSE widget
            ELSE IF auto THEN enableAutoRange(widget)
            ELSE widget

\* on_range_changed, the comparison: the range the handler expects of
\* auto-range, from the timestamps
expected_x_range(timestamps) ==
    IF Len(timestamps) > 1
    THEN LET lo == ListMin(timestamps)
             hi == ListMax(timestamps)
             x_padding == IF hi > lo THEN FMul(FInt(hi - lo), Float005)
                                     ELSE FInt(1)
         IN << FSub(FInt(lo), x_padding), FAdd(FInt(hi), x_padding) >>
    ELSE << FInt(-1), FInt(1) >>

\* the comparison with a tolerance of a half of the expected span
manually_changed_half_tolerance(current_range, timestamps) ==
    LET expected == expected_x_range(timestamps)
        x_diff == FAbs(FSub(current_range[1][2], expected[2]))
        x_total == IF FLt(expected[1], expected[2])
                   THEN FSub(expected[2], expected[1]) ELSE FInt(1)
    IN FLt(FMul(x_total, Frac(1, 2)), x_diff)

\* on_range_changed, `x_diff > x_total * tolerance`
manually_changed(current_range, timestamps) ==
    LET expected == expected_x_range(timestamps)
        tolerance == Float01
        x_diff == FAbs(FSub(current_range[1][2], expected[2]))
        x_total == IF FLt(expected[1], expected[2])
                   THEN FSub(expected[2], expected[1]) ELSE FInt(1)
    IN FLt(FMul(x_total, tolerance), x_diff)

\* ------------------------------------------------------------------ state
VARIABLES
    data_manager,   \* PingPoller.data_manager, the PingDataManager object
    is_running,     \* PingPoller.is_running
    test_timer,     \* PingPoller.test_timer, a QTimer: [active, due]
    start_button,   \* PingPoller.start_button
    stop_button,    \* PingPoller.stop_button
    ping_worker,    \* PingPoller.ping_worker: [running, domain, interval]
    loops,          \* the _ping_loop threads, by order of creation:
                    \*   pc    "idle"  not created yet
                    \*         "wait"  before the while test (just started,
                    \*                 or in time.sleep)
                    \*         "probe" inside _ping_host
                    \*         "got"   _ping_host has returned, the signal is
                    \*                 not emitted yet
                    \*         "done"  left the loop
                    \*   host       the argument of the _ping_host call
                    \*   ping_time  what _ping_host returned
    queue,          \* queued signal deliveries to the GUI thread, oldest first
    clock,          \* datetime.now()
    g_samples,      \* history: <<ping_time, current_time>> of every success
                    \* recorded since the store was last cleared
    g_failures,     \* history: failures recorded since the last clear
    g_probes,       \* history: probes issued so far
    g_completed,    \* history: probes that have returned so far
    g_delivered,    \* history: notifications handed to their slots so far
    g_log,          \* history: for every success recorded since the last
                    \* clear, which probe it was (in order of return)
    g_dropped,      \* history: a notification was discarded since the last
                    \* start
    g_duration,     \* history: the duration the running session was started
                    \* with
    g_stopped_by,   \* history: what last called stop_test since the last
                    \* start: "click", "timer", or "none"
    auto_range_enabled,     \* PingPoller.auto_range_enabled
    follow_mode_enabled,    \* PingPoller.follow_mode_enabled
    follow_window_seconds,  \* PingPoller.follow_window_seconds
    follow_window_input,    \* the follow-window spin box: [value, enabled]
    show_graph_controls,    \* PingPoller.show_graph_controls: the follow
                            \* button and the spin box are visible
    graph_widget,   \* the chart's view box: [auto, xRange, yRange], auto when
                    \* the chart fits its range to the data by itself
    g_quality,      \* history: the last get_ping_quality_status call,
                    \* [current_ping, result]
    g_started_at,   \* history: the clock when start_test last started a
                    \* session
    g_handler,      \* history: the handler of the view that ran last
    network_test_button,    \* PingPoller.network_test_button is enabled
    network_tester, \* the _test_connection_thread threads, by order of
                    \* creation:
                    \*   pc      "idle"  not created yet
                    \*           "probe" inside _ping_host
                    \*           "got"   _ping_host has returned
                    \*           "done"  returned from the thread function
                    \*   host    index in NETWORK_TEST_HOSTS of the loop's host
                    \*   result  what _ping_host returned
                    \*   g_probed, g_results, g_emitted  history: the hosts
                    \*           probed, what each probe returned, the
                    \*           test_completed signals emitted
    net_queue,      \* queued test_completed deliveries, oldest first
    g_reports,      \* history: the test_completed notifications handed to
                    \* on_network_test_completed
    g_probe,        \* history: the last PingWorker._ping_host call checked on
                    \* its own: [system, run, result]
    g_export        \* the export in progress or made last:
                    \*   pc       "dialog" while the file dialog is open
                    \*   outcome  how the last export ended
                    \*   rows     the data rows it wrote
                    \*   g_outcomes  history: how every export ended

store_vars == <<data_manager, g_samples, g_failures>>
gui_vars == <<is_running, test_timer, start_button, stop_button>>
worker_vars == <<ping_worker, loops, queue>>
hist_vars == <<g_probes, g_completed, g_delivered, g_log, g_dropped,
               g_duration, g_stopped_by>>
view_vars == <<auto_range_enabled, follow_mode_enabled, follow_window_seconds,
               follow_window_input, show_graph_controls, graph_widget>>
main_vars == <<data_manager, is_running, test_timer, start_button, stop_button,
               ping_worker, loops, queue, clock, g_samples, g_failures, g_probes,
               g_completed, g_delivered, g_log, g_dropped, g_duration,
               g_stopped_by, auto_range_enabled, follow_mode_enabled,
               follow_window_seconds, follow_window_input, show_graph_controls,
               graph_widget, g_quality, g_started_at, g_handler>>
\* the connectivity test, and the probe and the export on their own
aux_vars == <<network_test_button, network_tester, net_queue, g_reports,
              g_probe, g_export>>
vars == <<main_vars, aux_vars>>

Threads == 1..MaxThreads
\* threads created so far; thread k is the loop of the k-th started session
NumStarted == Cardinality({i \in Threads : loops[i].pc # "idle"})
Alive(i) == loops[i].pc \in {"wait", "probe", "got"}

\* no get_ping_quality_status call yet
NoCall == [current_ping |-> None, result |-> <<>>]

\* AppConfig.NETWORK_TEST_HOSTS
NETWORK_TEST_HOSTS == << "8.8.8.8", "1.1.1.1", "google.com" >>
Tests == 1..MaxTests
\* connectivity tests started so far
NumTests == Cardinality({i \in Tests : network_tester[i].pc # "idle"})
IdleTester == [pc |-> "idle", host |-> 0, result |-> FALSE, g_probed |-> <<>>,
               g_results |-> <<>>, g_emitted |-> <<>>]
\* no _ping_host call yet
NoProbe == [system |-> "", run |-> <<>>, result |-> <<>>]
\* no export yet
NoExport == [pc |-> "idle", outcome |-> "none", rows |-> <<>>,
             g_outcomes |-> <<>>]
\* PingPoller.__init__: the network test button is enabled, no test runs
AuxInit ==
    /\ network_test_button = TRUE
    /\ network_tester = [i \in Tests |-> IdleTester]
    /\ net_queue = <<>>
    /\ g_reports = <<>>
    /\ g_probe = NoProbe
    /\ g_export = NoExport

IdleLoop == [pc |-> "idle", host |-> <<>>, ping_time |-> None, g_n |-> 0,
             g_session |-> 0, g_stop_called |-> FALSE]

Init ==
    /\ data_manager = PingDataManager(MAX_PING_HISTORY, MAX_RECENT_PINGS)
    /\ is_running = FALSE
    /\ test_timer = [active |-> FALSE, due |-> 0]
    /\ start_button = Button(TRUE)
    /\ stop_button = Button(FALSE)
    /\ ping_worker = [running |-> FALSE, domain |-> <<>>, interval |-> 1]
    /\ loops = [i \in Threads |-> IdleLoop]
    /\ queue = <<>>
    /\ clock = 0
    /\ g_samples = <<>>
    /\ g_failures = 0
    /\ g_probes = 0
    /\ g_completed = 0
    /\ g_delivered = 0
    /\ g_log = <<>>
    /\ g_dropped = FALSE
    /\ g_duration = 0
    /\ g_stopped_by = "none"
    /\ auto_range_enabled = TRUE
    /\ follow_mode_enabled = FALSE
    /\ follow_window_seconds = DEFAULT_FOLLOW_WINDOW
    /\ follow_window_input = [value |-> DEFAULT_FOLLOW_WINDOW, enabled |-> FALSE]
    /\ show_graph_controls = FALSE
    /\ graph_widget = PlotWidget
    /\ g_quality = NoCall
    /\ g_started_at = None
    /\ g_handler = "none"
    /\ AuxInit

\* ------------------------------------------------------------- PingWorker
\* start_pinging: store the arguments, set the flag, start a new thread
start_pinging(domain, interval) ==
    /\ ping_worker' = [running |-> TRUE, domain |-> domain, interval |-> interval]
    /\ loops' = [loops EXCEPT ![NumStarted + 1] =
                    [IdleLoop EXCEPT !.pc = "wait"]]

\* stop_pinging: clear the flag; the threads are left to see it
stop_pinging ==
    /\ ping_worker' = [ping_worker EXCEPT !.running = FALSE]
    /\ loops' = [i \in Threads |->
                    IF Alive(i) THEN [loops[i] EXCEPT !.g_stop_called = TRUE]
                    ELSE loops[i]]

\* _ping_loop, `while self.running:` at the top of the loop (reached from the
\* thread's start or from the end of time.sleep): leave, or call _ping_host
LoopTest(i) ==
    /\ loops[i].pc = "wait"
    /\ IF ping_worker.running
       THEN /\ g_probes < MaxProbes
            /\ loops' = [loops EXCEPT ![i].pc = "probe",
                                      ![i].host = ping_worker.domain,
                                      ![i].g_session = NumStarted]
            /\ g_probes' = g_probes + 1
       ELSE /\ loops' = [loops EXCEPT ![i].pc = "done"]
            /\ UNCHANGED g_probes
    /\ UNCHANGED <<store_vars, gui_vars, ping_worker, queue, clock,
                   g_completed, g_delivered, g_log, g_dropped, g_duration,
                   g_stopped_by, view_vars, g_quality, g_started_at, g_handler,
                   aux_vars>>

\* _ping_host returns a latency, or None on any failure
PingHostReturns(i) ==
    /\ loops[i].pc = "probe"
    /\ \E ping_time \in Latencies \cup {None} :
         loops' = [loops EXCEPT ![i].pc = "got", ![i].ping_time = ping_time,
                                ![i].g_n = g_completed + 1]
    /\ g_completed' = g_completed + 1
    /\ UNCHANGED <<store_vars, gui_vars, ping_worker, queue, clock, g_probes,
                   g_delivered, g_log, g_dropped, g_duration, g_stopped_by,
                   view_vars, g_quality, g_started_at, g_handler,
                   aux_vars>>

\* a queued call of the slot connected to signal sig
Notification(sig, ping_time, i) ==
    [ sig |-> sig, ping_time |-> ping_time,
      g_n |-> loops[i].g_n, g_session |-> loops[i].g_session ]

\* _ping_loop, the if/else after _ping_host: the signals thread i emits for
\* what _ping_host returned.  The emitting thread is not the receiver's
\* thread, so Qt queues each call for the GUI thread.
emit(ping_time, i) ==
    IF ping_time # None
    THEN << Notification("ping_result", ping_time, i) >>
    ELSE << Notification("ping_failed", None, i) >>

\* a loop that a failed probe ends
after_emit_break_on_failure(i) ==
    IF loops[i].ping_time = None THEN "done" ELSE "wait"

\* where thread i is after the if/else: in time.sleep(self.interval)
after_emit(i) == "wait"

\* _ping_loop from the if/else to time.sleep
LoopEmit(i) ==
    /\ loops[i].pc = "got"
    /\ Len(queue) + Len(emit(loops[i].ping_time, i)) <= MaxQueue
    /\ queue' = queue \o emit(loops[i].ping_time, i)
    /\ loops' = [loops EXCEPT ![i].pc = after_emit(i), ![i].host = <<>>,
                              ![i].ping_time = None, ![i].g_n = 0,
                              ![i].g_session = 0]
    /\ UNCHANGED <<store_vars, gui_vars, ping_worker, clock, hist_vars,
                   view_vars, g_quality, g_started_at, g_handler,
                   aux_vars>>

\* ------------------------------------------------------------------ QTimer
\* a start that leaves a running timer alone
QTimer_start_unless_active(timer, interval) ==
    IF timer.active THEN timer
    ELSE [active |-> TRUE, due |-> clock + interval]

\* QTimer.start(msec): starts the timer, or restarts it when it is running
QTimer_start(timer, interval) == [active |-> TRUE, due |-> clock + interval]
\* a stop that leaves the timer running
QTimer_stop_no_effect(timer) == timer
\* QTimer.stop()
QTimer_stop(timer) == [active |-> FALSE, due |-> 0]

\* -------------------------------------------------------------- PingPoller
\* PingPoller.clear_data that resets the cards and the plot, not the store
PingPoller_clear_data_display_only(self) == self

\* PingPoller.clear_data: self.data_manager.clear_data(); the plot line is
\* emptied and the cards are reset, and no range is set
PingPoller_clear_data(self) == clear_data(self)

\* start_test, called by a click on the enabled start button
start_test(text, duration, interval) ==
    LET domain == strip(text) IN
    IF domain = <<>>
    THEN UNCHANGED vars
    ELSE /\ NumStarted < MaxThreads
         /\ clock + duration <= MaxClock
         /\ data_manager' = set_start_time(PingPoller_clear_data(data_manager),
                                           clock)
         /\ auto_range_enabled' = IF ~follow_mode_enabled THEN TRUE
                                  ELSE auto_range_enabled
         /\ is_running' = TRUE
         /\ start_button' = animate_state_change(start_button, FALSE)
         /\ stop_button' = animate_state_change(stop_button, TRUE)
         /\ start_pinging(domain, interval)
         /\ test_timer' = QTimer_start(test_timer, duration)
         /\ g_samples' = <<>>
         /\ g_failures' = 0
         /\ g_log' = <<>>
         /\ g_dropped' = FALSE
         /\ g_duration' = duration
         /\ g_stopped_by' = "none"
         /\ g_started_at' = clock
         /\ UNCHANGED <<queue, clock, g_probes, g_completed, g_delivered,
                        follow_mode_enabled, follow_window_seconds,
                        follow_window_input, show_graph_controls,
                        graph_widget, g_quality, g_handler,
                   aux_vars>>

\* stop_test, called by a click on the enabled stop button and by the timer
stop_test(by) ==
    /\ is_running' = FALSE
    /\ stop_pinging
    /\ test_timer' = QTimer_stop(test_timer)
    /\ start_button' = animate_state_change(start_button, TRUE)
    /\ stop_button' = animate_state_change(stop_button, FALSE)
    /\ g_duration' = 0
    /\ g_stopped_by' = by
    /\ UNCHANGED <<store_vars, queue, clock, g_probes, g_completed,
                   g_delivered, g_log, g_dropped, view_vars, g_quality,
                   g_started_at, g_handler,
                   aux_vars>>

\* on_ping_result without the is_running test
on_ping_result_unguarded(ping_time, m) ==
    LET current_time == clock - data_manager.start_time
        self == add_ping_result(data_manager, ping_time, current_time)
    IN
    /\ data_manager' = self
    /\ graph_widget' = update_graph_view(self, follow_mode_enabled,
                            auto_range_enabled, follow_window_seconds,
                            graph_widget)
    /\ g_samples' = Append(g_samples, <<ping_time, current_time>>)
    /\ g_log' = Append(g_log, m.g_n)
    /\ UNCHANGED <<g_failures, g_dropped>>

on_ping_result(ping_time, m) ==
    IF ~is_running
    THEN /\ g_dropped' = TRUE
         /\ UNCHANGED <<store_vars, g_log, graph_widget>>
    ELSE LET current_time == clock - data_manager.start_time
             self == add_ping_result(data_manager, ping_time, current_time)
         IN
         /\ data_manager' = self
         /\ graph_widget' = update_graph_view(self, follow_mode_enabled,
                                 auto_range_enabled, follow_window_seconds,
                                 graph_widget)
         /\ g_samples' = Append(g_samples, <<ping_time, current_time>>)
         /\ g_log' = Append(g_log, m.g_n)
         /\ UNCHANGED <<g_failures, g_dropped>>

on_ping_failed(m) ==
    IF ~is_running
    THEN /\ g_dropped' = TRUE
         /\ UNCHANGED <<store_vars, g_log, graph_widget>>
    ELSE /\ data_manager' = add_ping_failure(data_manager)
         /\ g_failures' = g_failures + 1
         /\ UNCHANGED <<g_samples, g_log, g_dropped, graph_widget>>

\* the rest of the state, for the handlers of the view
session_vars == <<store_vars, gui_vars, worker_vars, clock, hist_vars,
                  g_quality, g_started_at, aux_vars>>

\* on_graph_view_button_clicked: toggle follow mode
on_graph_view_button_clicked ==
    LET follow == ~follow_mode_enabled
        auto == ~follow
        window == IF follow THEN follow_window_input.value
                            ELSE follow_window_seconds
    IN /\ follow_mode_enabled' = follow
       /\ follow_window_input' = [follow_window_input EXCEPT !.enabled = follow]
       /\ auto_range_enabled' = auto
       /\ follow_window_seconds' = window
       /\ graph_widget' =
            IF has_data(data_manager)
            THEN update_graph_view(data_manager, follow, auto, window,
                                   graph_widget)
            ELSE graph_widget
       /\ g_handler' = "on_graph_view_button_clicked"
       /\ UNCHANGED <<session_vars, show_graph_controls>>

\* on_follow_window_changed, the slot of the spin box's valueChanged
on_follow_window_changed(value) ==
    /\ follow_window_input' = [follow_window_input EXCEPT !.value = value]
    /\ follow_window_seconds' = value
    /\ graph_widget' =
         IF follow_mode_enabled /\ has_data(data_manager)
         THEN update_graph_view(data_manager, follow_mode_enabled,
                                auto_range_enabled, value, graph_widget)
         ELSE graph_widget
    /\ g_handler' = "on_follow_window_changed"
    /\ UNCHANGED <<session_vars, auto_range_enabled, follow_mode_enabled,
                   show_graph_controls>>

\* on_range_changed without the follow-mode test
on_range_changed_in_any_mode(widget) ==
    IF is_running /\ has_data(data_manager)
    THEN auto_range_enabled' =
           ~manually_changed(viewRange(widget), get_data_arrays(data_manager)[1])
    ELSE UNCHANGED auto_range_enabled

\* on_range_changed, the slot of the chart's sigRangeChanged; widget is the
\* chart as the change left it
on_range_changed(widget) ==
    IF ~follow_mode_enabled /\ is_running /\ has_data(data_manager)
    THEN auto_range_enabled' =
           ~manually_changed(viewRange(widget), get_data_arrays(data_manager)[1])
    ELSE UNCHANGED auto_range_enabled

\* reset_view that leaves follow mode as it is
reset_view_keeps_follow_mode ==
    /\ auto_range_enabled' = TRUE
    /\ follow_mode_enabled' = follow_mode_enabled
    /\ follow_window_input' =
         IF show_graph_controls
         THEN [follow_window_input EXCEPT !.enabled = FALSE]
         ELSE follow_window_input
    /\ graph_widget' =
         IF has_data(data_manager)
         THEN enableAutoRange(graph_widget)
         ELSE setRange(graph_widget, << FInt(-1), FInt(1) >>,
                       << FInt(0), FInt(100) >>)
    /\ g_handler' = "reset_view"
    /\ UNCHANGED <<session_vars, follow_window_seconds, show_graph_controls>>

\* reset_view, the slot of the chart's reset button
reset_view ==
    /\ auto_range_enabled' = TRUE
    /\ follow_mode_enabled' = FALSE
    /\ follow_window_input' =
         IF show_graph_controls
         THEN [follow_window_input EXCEPT !.enabled = FALSE]
         ELSE follow_window_input
    /\ graph_widget' =
         IF has_data(data_manager)
         THEN enableAutoRange(graph_widget)
         ELSE setRange(graph_widget, << FInt(-1), FInt(1) >>,
                       << FInt(0), FInt(100) >>)
    /\ g_handler' = "reset_view"
    /\ UNCHANGED <<session_vars, follow_window_seconds, show_graph_controls>>

\* show_settings, the dialog accepted with this choice for the graph controls
show_settings(settings) ==
    /\ show_graph_controls' = settings
    /\ g_handler' = "show_settings"
    /\ UNCHANGED <<session_vars, auto_range_enabled, follow_mode_enabled,
                   follow_window_seconds, follow_window_input, graph_widget>>

\* ------------------------------------------------- events of the GUI thread
ClickStart ==
    /\ start_button.enabled
    /\ \E text \in DomainTexts, duration \in Durations, interval \in Intervals :
         start_test(text, duration, interval)

ClickStop ==
    /\ stop_button.enabled
    /\ stop_test("click")

\* QTimer.timeout of test_timer
TimerTimeout ==
    /\ test_timer.active
    /\ clock >= test_timer.due
    /\ stop_test("timer")

\* QPropertyAnimation.finished of the two fade-outs that start_test or
\* stop_test started together, with the same duration
ButtonsFaded ==
    /\ start_button.anim # "none" \/ stop_button.anim # "none"
    /\ start_button' = on_fade_out_finished(start_button)
    /\ stop_button' = on_fade_out_finished(stop_button)
    /\ UNCHANGED <<store_vars, is_running, test_timer, worker_vars, clock,
                   hist_vars, view_vars, g_quality, g_started_at, g_handler,
                   aux_vars>>

\* the event loop hands the oldest queued signal to its slot
Deliver ==
    /\ queue # <<>>
    /\ queue' = Tail(queue)
    /\ LET m == Head(queue) IN
         IF m.sig = "ping_result" THEN on_ping_result(m.ping_time, m)
                                  ELSE on_ping_failed(m)
    /\ g_delivered' = g_delivered + 1
    /\ UNCHANGED <<gui_vars, ping_worker, loops, clock, g_probes,
                   g_completed, g_duration, g_stopped_by, auto_range_enabled,
                   follow_mode_enabled, follow_window_seconds,
                   follow_window_input, show_graph_controls, g_quality,
                   g_started_at, g_handler,
                   aux_vars>>

\* One tick of the clock is a second or more; the fade-out of a button takes
\* 150 ms, so a tick finds none still running.
Tick ==
    /\ clock < MaxClock
    /\ start_button.anim = "none" /\ stop_button.anim = "none"
    /\ clock' = clock + 1
    /\ UNCHANGED <<store_vars, gui_vars, worker_vars, hist_vars, view_vars,
                   g_quality, g_started_at, g_handler,
                   aux_vars>>

Next ==
    \/ ClickStart
    \/ ClickStop
    \/ TimerTimeout
    \/ ButtonsFaded
    \/ Deliver
    \/ Tick
    \/ \E i \in Threads : LoopTest(i)
    \/ \E i \in Threads : PingHostReturns(i)
    \/ \E i \in Threads : LoopEmit(i)

Spec == Init /\ [][Next]_vars

\* ------------------------------------------------------------- scheduling
\* Every thread that can take a step takes one, and the event loop delivers
\* what is queued.  Nothing is assumed of the user or of the timer.
FairLoops ==
    /\ Spec
    /\ \A i \in Threads : WF_vars(LoopTest(i))
    /\ \A i \in Threads : WF_vars(PingHostReturns(i))
    /\ \A i \in Threads : WF_vars(LoopEmit(i))
    /\ WF_vars(Deliver)

\* Time passes and the event loop runs a timer or an animation that is due.
\* Nothing is assumed of the user or of the threads.
FairTimer ==
    /\ Spec
    /\ WF_vars(Tick)
    /\ WF_vars(ButtonsFaded)
    /\ WF_vars(TimerTimeout)

\* -------------------------------------------------- the store on its own
\* Any caller, any order of calls: the public methods of PingDataManager
\* applied to arguments drawn from small sets.  Two stores are driven: a small
\* one, with every sequence of up to MaxSamples successes, and one of the
\* program's size, filled past its capacity by one long run of successes
\* (the k-th latency and elapsed time are fixed) with failures, clears and
\* start times at any point of it.
others == <<gui_vars, worker_vars, clock, hist_vars, view_vars, g_quality,
            g_started_at, g_handler,
                   aux_vars>>
Small == data_manager.max_history = HistCap

StoreInit ==
    /\ \/ data_manager = PingDataManager(HistCap, RecentCap)
       \/ data_manager = PingDataManager(MAX_PING_HISTORY, MAX_RECENT_PINGS)
    /\ is_running = FALSE
    /\ test_timer = [active |-> FALSE, due |-> 0]
    /\ start_button = Button(TRUE)
    /\ stop_button = Button(FALSE)
    /\ ping_worker = [running |-> FALSE, domain |-> <<>>, interval |-> 1]
    /\ loops = [i \in Threads |-> IdleLoop]
    /\ queue = <<>>
    /\ clock = 0
    /\ g_samples = <<>>
    /\ g_failures = 0
    /\ g_probes = 0
    /\ g_completed = 0
    /\ g_delivered = 0
    /\ g_log = <<>>
    /\ g_dropped = FALSE
    /\ g_duration = 0
    /\ g_stopped_by = "none"
    /\ auto_range_enabled = TRUE
    /\ follow_mode_enabled = FALSE
    /\ follow_window_seconds = DEFAULT_FOLLOW_WINDOW
    /\ follow_window_input = [value |-> DEFAULT_FOLLOW_WINDOW, enabled |-> FALSE]
    /\ show_graph_controls = FALSE
    /\ graph_widget = PlotWidget
    /\ g_quality = NoCall
    /\ g_started_at = None
    /\ g_handler = "none"
    /\ AuxInit

\* the k-th success of the long run
LongRunSample(k) == << 10 * (1 + (k % 3)), k >>

CallAddPingResult ==
    /\ IF Small
       THEN /\ Len(g_samples) < MaxSamples
            /\ \E ping_time \in StoreLatencies, current_time \in StoreTimes :
                 /\ data_manager' = add_ping_result(data_manager, ping_time,
                                                    current_time)
                 /\ g_samples' = Append(g_samples, <<ping_time, current_time>>)
       ELSE /\ Len(g_samples) < data_manager.max_history + MaxOverflow
            /\ LET x == LongRunSample(Len(g_samples) + 1) IN
                 /\ data_manager' = add_ping_result(data_manager, x[1], x[2])
                 /\ g_samples' = Append(g_samples, x)
    /\ UNCHANGED <<g_failures, others>>

CallAddPingFailure ==
    /\ g_failures < MaxFailures
    /\ data_manager' = add_ping_failure(data_manager)
    /\ g_failures' = g_failures + 1
    /\ UNCHANGED <<g_samples, others>>

CallClearData ==
    /\ data_manager' = clear_data(data_manager)
    /\ g_samples' = <<>>
    /\ g_failures' = 0
    /\ UNCHANGED others

CallSetStartTime ==
    /\ \E t \in StoreTimes :
         data_manager' = set_start_time(data_manager, t)
    /\ UNCHANGED <<g_samples, g_failures, others>>

StoreNext ==
    \/ CallAddPingResult
    \/ CallAddPingFailure
    \/ CallClearData
    \/ CallSetStartTime

StoreSpec == StoreInit /\ [][StoreNext]_vars

\* ------------------------------------------- the GUI thread on its own
\* The handlers of PingPoller called as the event loop calls them, the loop
\* threads left out: a result is handed to on_ping_result while the session
\* runs, at most one per instant, and the user clicks, types, zooms and pans
\* at any time.  The clock is read at the instants of ViewInstants and the
\* latency measured at an instant is fixed.
LatencyAt(elapsed) ==
    IF elapsed = 0 THEN 10
    ELSE IF elapsed = 5 THEN 20
    ELSE IF elapsed = 12 THEN 30
    ELSE 15

\* the follow button is on screen
ClickGraphViewButton ==
    /\ show_graph_controls
    /\ on_graph_view_button_clicked

\* the spin box is on screen and enabled, and its value changes
EditFollowWindow ==
    /\ show_graph_controls
    /\ follow_window_input.enabled
    /\ \E value \in FollowWindows \ {follow_window_input.value} :
         on_follow_window_changed(value)

\* the user zooms or pans: the chart leaves auto-range, shows the new range
\* and emits sigRangeChanged
UserChangesView ==
    \E xr \in UserXRanges :
      LET widget == [ auto   |-> FALSE,
                      xRange |-> << FInt(xr[1]), FInt(xr[2]) >>,
                      yRange |-> << FInt(UserYRange[1]), FInt(UserYRange[2]) >> ]
      IN /\ widget # graph_widget
         /\ graph_widget' = widget
         /\ on_range_changed(widget)
         /\ g_handler' = "on_range_changed"
         /\ UNCHANGED <<session_vars, follow_mode_enabled,
                        follow_window_seconds, follow_window_input,
                        show_graph_controls>>

\* the chart, in auto-range and with data, fits its range to the data and
\* emits sigRangeChanged
ChartAutoFits ==
    /\ graph_widget.auto
    /\ has_data(data_manager)
    /\ \E padding \in ChartPaddings, unit \in ChartZeroSpans :
         LET widget == auto_fit(graph_widget,
                                get_data_arrays(data_manager)[1],
                                get_data_arrays(data_manager)[2],
                                padding, unit)
         IN /\ widget # graph_widget
            /\ graph_widget' = widget
            /\ on_range_changed(widget)
    /\ g_handler' = "on_range_changed"
    /\ UNCHANGED <<session_vars, follow_mode_enabled, follow_window_seconds,
                   follow_window_input, show_graph_controls>>

ClickResetView == reset_view

AcceptSettings == \E settings \in BOOLEAN : show_settings(settings)

\* the queued ping_result of the probe made at this instant is delivered
SlotPingResult ==
    /\ is_running
    /\ LET elapsed == clock - data_manager.start_time
           m == [ sig |-> "ping_result", ping_time |-> LatencyAt(elapsed),
                  g_n |-> Len(g_samples) + 1, g_session |-> NumStarted ]
       IN /\ \A i \in 1..Len(data_manager.timestamps) :
                data_manager.timestamps[i] < elapsed
          /\ on_ping_result(m.ping_time, m)
    /\ UNCHANGED <<gui_vars, worker_vars, clock, g_probes, g_completed,
                   g_delivered, g_duration, g_stopped_by, auto_range_enabled,
                   follow_mode_enabled, follow_window_seconds,
                   follow_window_input, show_graph_controls, g_quality,
                   g_started_at, g_handler,
                   aux_vars>>

\* time passes to the next instant
ViewTick ==
    /\ start_button.anim = "none" /\ stop_button.anim = "none"
    /\ \E t \in ViewInstants :
         /\ t > clock
         /\ \A u \in ViewInstants : u > clock => t <= u
         /\ clock' = t
    /\ UNCHANGED <<store_vars, gui_vars, worker_vars, hist_vars, view_vars,
                   g_quality, g_started_at, g_handler,
                   aux_vars>>

ViewNext ==
    \/ ClickStart
    \/ ClickStop
    \/ TimerTimeout
    \/ ButtonsFaded
    \/ ViewTick
    \/ SlotPingResult
    \/ ClickGraphViewButton
    \/ EditFollowWindow
    \/ UserChangesView
    \/ ChartAutoFits
    \/ ClickResetView
    \/ AcceptSettings

ViewSpec == Init /\ [][ViewNext]_vars

\* ------------------------------------------------ what the history says
\* The g_ variables record the calls made; nothing below reads the store's
\* own counters or deques except through the getters under test.
Succeeded == Len(g_samples)
LatencyOf(k) == g_samples[k][1]
ElapsedOf(k) == g_samples[k][2]
\* the latencies of the last k successes, oldest first
LastLatencies(k) ==
    LET m == Min2(k, Succeeded) IN
    [i \in 1..m |-> LatencyOf(Succeeded - m + i)]
LastElapsed(k) ==
    LET m == Min2(k, Succeeded) IN
    [i \in 1..m |-> ElapsedOf(Succeeded - m + i)]
IsSuffix(s, t) == Len(s) <= Len(t) /\ s = LastN(t, Len(s))

\* C7: after any sequence of add_ping_result / add_ping_failure calls since
\* the last clear, packet_loss is failures / (failures + successes) * 100,
\* and is 0 when nothing was recorded; 3 successes and 2 failures give 40.
C7_PacketLoss ==
    LET loss == get_basic_statistics(data_manager).packet_loss
        attempts == g_failures + Succeeded
    IN /\ IF attempts = 0
          THEN loss = Zero
          ELSE SameNumber(loss, Frac(g_failures * 100, attempts))
       /\ (Succeeded = 3 /\ g_failures = 2) => SameNumber(loss, Frac(40, 1))

\* 3 successes of 20 ms, then 2 failures, and the loss read is 40
C7_Witness ==
    /\ g_samples = << <<20, 0>>, <<20, 0>>, <<20, 2>> >>
    /\ g_failures = 2
    /\ data_manager.failed_count = 2
    /\ SameNumber(get_basic_statistics(data_manager).packet_loss, Frac(40, 1))

\* C8: timestamps and ping_times have the same length, at most the capacity
\* (1000 in the program), and hold exactly the most recent min(n, capacity)
\* successes since the last clear, in the order recorded; after capacity + 1
\* successes the first is gone and the 2nd to the last are there, in order.
C8_History ==
    LET cap == data_manager.max_history
        h == data_manager.ping_times
        t == data_manager.timestamps
    IN /\ cap \in {HistCap, MAX_PING_HISTORY}
       /\ Len(h) = Len(t)
       /\ Len(h) <= cap
       /\ Len(h) = Min2(Succeeded, cap)
       /\ h = LastLatencies(cap)
       /\ t = LastElapsed(cap)
       /\ Succeeded = cap + 1 =>
            \A i \in 1..cap : <<h[i], t[i]>> = g_samples[i + 1]

\* the store of the program's size after 1001 successes: the history is
\* full and starts at the second sample recorded, which differs from the first
C8_Witness ==
    /\ data_manager.max_history = 1000
    /\ Succeeded = 1001
    /\ Len(data_manager.ping_times) = 1000
    /\ g_samples[1] # g_samples[2]
    /\ << data_manager.ping_times[1], data_manager.timestamps[1] >> = g_samples[2]

\* C9: recent_pings holds at most its capacity (100 in the program) and is
\* exactly the latencies of the most recent min(n, capacity) successes since
\* the last clear; it is a suffix of the history's latencies, whichever of the
\* two has evicted.
C9_RecentPings ==
    LET cap == data_manager.max_recent
        r == data_manager.recent_pings
    IN /\ cap \in {RecentCap, MAX_RECENT_PINGS}
       /\ Len(r) <= cap
       /\ Len(r) = Min2(Succeeded, cap)
       /\ r = LastLatencies(cap)
       /\ IsSuffix(r, data_manager.ping_times)

\* the store of the program's size with more than 100 and fewer than 1000
\* successes: recent_pings has evicted, the history has not
C9_Witness ==
    /\ data_manager.max_recent = 100
    /\ Succeeded = 101
    /\ Len(data_manager.recent_pings) = 100
    /\ Len(data_manager.ping_times) = 101
    /\ data_manager.recent_pings[1] = LatencyOf(2)
    /\ LatencyOf(1) # LatencyOf(2)

\* the sum of the squares
RECURSIVE SumSq(_)
SumSq(s) == IF s = <<>> THEN 0 ELSE Head(s) * Head(s) + SumSq(Tail(s))
\* the population variance of a non-empty s: E[x^2] - E[x]^2, over N
PopulationVariance(s) ==
    LET N == Len(s) IN Frac(N * SumSq(s) - SeqSum(s) * SeqSum(s), N * N)

\* C10: jitter is 0 while recent_pings has 0 or 1 entries; from 2 entries on
\* it is the population standard deviation of the latencies in recent_pings,
\* which are those of the last min(n, capacity) successes, not of the history.
C10_Jitter ==
    LET jitter == get_advanced_statistics(data_manager).jitter
        r == LastLatencies(data_manager.max_recent)
    IN IF Len(r) < 2
       THEN jitter.sq = Zero
       ELSE SameNumber(jitter.sq, PopulationVariance(r))

\* the small store after the history outgrew recent_pings: the jitter read is
\* that of the last two latencies, 10 and 30 (variance 100), and the
\* history's variance is another
C10_Witness ==
    /\ Small
    /\ Len(data_manager.ping_times) > Len(data_manager.recent_pings)
    /\ data_manager.recent_pings = <<10, 30>>
    /\ SameNumber(get_advanced_statistics(data_manager).jitter.sq, Frac(100, 1))
    /\ ~SameNumber(PopulationVariance(data_manager.ping_times), Frac(100, 1))

\* ------------------------------------------------------ the sampling loop
Probing == {i \in Threads : loops[i].pc = "probe"}

\* C1: at no moment are two _ping_loop threads both inside a probe they
\* issued after seeing running == True.
C1_OneLoopProbing == Cardinality(Probing) <= 1

\* C2: once stop_pinging has been called on a thread's loop, the thread
\* issues no new probe: the next time it is at the while test it leaves.
C2_NoProbeAfterStop ==
    [][\A i \in Threads :
         (loops[i].g_stop_called /\ loops[i].pc = "wait")
            => loops'[i].pc # "probe"]_vars

\* C3: while the session is stopped (stop_test has returned and start_test
\* has not been called since) no step changes the store: a notification
\* delivered then, the in-flight probe's included, is discarded.
C3_StoppedStoreFrozen ==
    [][(~is_running /\ ~is_running') => data_manager' = data_manager]_vars

\* a session that recorded a sample was stopped and a notification that
\* arrived afterwards has been discarded
C3_Witness ==
    /\ ~is_running
    /\ g_dropped
    /\ g_stopped_by # "none"
    /\ has_data(data_manager)

\* the n of the notifications in q, in queue order
NsOf(q) == [k \in 1..Len(q) |-> q[k].g_n]
Increasing(s) == \A j, k \in 1..Len(s) : j < k => s[j] < s[k]

\* C4: every probe that has returned has produced exactly one notification
\* (threads between the return and the emit aside); the notifications are
\* queued, and the successes recorded, in the order the probes returned; a
\* loop has one probe in flight at most.
C4_NotificationOrder ==
    /\ g_completed =
         g_delivered + Len(queue)
           + Cardinality({i \in Threads : loops[i].pc = "got"})
    /\ g_probes - g_completed = Cardinality(Probing)
    /\ Increasing(g_log \o NsOf(queue))
    /\ Len(g_log) = Succeeded
    /\ data_manager.ping_times = LastLatencies(data_manager.max_history)

\* C5: handling a failure while the session runs adds one to failed_count and
\* stops nothing; a thread leaves its loop only after stop_pinging was
\* called; and a thread whose probe failed issues another probe, unless stop
\* was called (or the model's bound on probes is reached).
C5_FailureKeepsRunning ==
    /\ [][(is_running /\ g_delivered' # g_delivered
             /\ Head(queue).sig = "ping_failed")
           => /\ data_manager'.failed_count = data_manager.failed_count + 1
              /\ is_running'
              /\ ping_worker' = ping_worker
              /\ loops' = loops]_vars
    /\ [][\A i \in Threads :
            (loops[i].pc # "done" /\ loops'[i].pc = "done")
               => loops[i].g_stop_called]_vars
    /\ \A i \in Threads :
         (loops[i].pc = "got" /\ loops[i].ping_time = None)
            ~> \/ loops[i].pc = "probe"
               \/ loops[i].g_stop_called
               \/ g_probes = MaxProbes

\* two failures in a row were counted, the session still runs and its loop,
\* never stopped, is in its third probe
C5_Witness ==
    /\ is_running
    /\ data_manager.failed_count = 2
    /\ data_manager.ping_count = 0
    /\ \E i \in Threads : loops[i].pc = "probe" /\ ~loops[i].g_stop_called

\* C6: a running session is eventually stopped; a stop by the timer leaves
\* is_running and the worker's flag false and the timer disarmed, and comes
\* no sooner than the duration of the session it stops after that session's
\* start.
C6_AutoStop ==
    /\ [][(g_stopped_by' = "timer" /\ g_stopped_by # "timer")
           => /\ ~is_running'
              /\ ~ping_worker'.running
              /\ ~test_timer'.active
              /\ clock - data_manager.start_time >= g_duration]_vars
    /\ is_running ~> ~is_running

\* the second session, started while the first one's timer was armed, has been
\* stopped by the timer
C6_Witness ==
    /\ NumStarted = 2
    /\ g_stopped_by = "timer"
    /\ ~is_running
    /\ loops[1].pc # "done"

\* ---------------------------------------------------- the store's aggregates
\* the latencies of all successes recorded since the last clear
AllLatencies == {LatencyOf(k) : k \in 1..Succeeded}
\* the latencies now in the history
HistoryLatencies ==
    {data_manager.ping_times[i] : i \in 1..Len(data_manager.ping_times)}

\* C11: after a clear and one or more successes, min_ping and max_ping are
\* the least and the greatest latency recorded since the clear, evicted
\* samples included, so every latency in the history lies between them; after
\* a clear and one success of latency X both are X.
C11_MinMax ==
    Succeeded > 0 =>
      LET adv == get_advanced_statistics(data_manager) IN
      /\ data_manager.min_ping \in AllLatencies
      /\ data_manager.max_ping \in AllLatencies
      /\ \A x \in AllLatencies :
           data_manager.min_ping <= x /\ x <= data_manager.max_ping
      /\ \A x \in HistoryLatencies :
           data_manager.min_ping <= x /\ x <= data_manager.max_ping
      /\ adv.min_ping = data_manager.min_ping
      /\ adv.max_ping = data_manager.max_ping
      /\ Succeeded = 1 => /\ adv.min_ping = LatencyOf(1)
                          /\ adv.max_ping = LatencyOf(1)

\* the small store after the one 10 ms sample and the one 30 ms sample were
\* both evicted: min_ping and max_ping still are 10 and 30, the history holds
\* 20s only
C11_Witness ==
    /\ Small
    /\ Succeeded = 5
    /\ HistoryLatencies = {20}
    /\ data_manager.min_ping = 10
    /\ data_manager.max_ping = 30

\* C12: while no success was recorded since the last clear (at first, after
\* a clear, after failures only) get_advanced_statistics gives min_ping = 0
\* and max_ping = 0: the stored infinity is not handed out.
C12_NoSentinel ==
    Succeeded = 0 =>
      /\ get_advanced_statistics(data_manager).min_ping = 0
      /\ get_advanced_statistics(data_manager).max_ping = 0

\* failures only: the stored min_ping is the infinity, the one handed out is 0
C12_Witness ==
    /\ Succeeded = 0
    /\ g_failures = 2
    /\ data_manager.failed_count = 2
    /\ data_manager.min_ping = Inf
    /\ get_advanced_statistics(data_manager).min_ping = 0

\* the store after clear and successes of 10, 20, 30, 40 and 50 ms, one a
\* second
RECURSIVE Recorded(_, _)
Recorded(self, latencies) ==
    IF latencies = <<>> THEN self
    ELSE Recorded(add_ping_result(self, Head(latencies),
                                  self.ping_count + 1),
                  Tail(latencies))
Scenario5 ==
    Recorded(clear_data(PingDataManager(MAX_PING_HISTORY, MAX_RECENT_PINGS)),
             <<10, 20, 30, 40, 50>>)

\* the sum of the latencies of successes lo..hi, by halves
RECURSIVE LatencySum(_, _)
LatencySum(lo, hi) ==
    IF lo > hi THEN 0
    ELSE IF lo = hi THEN LatencyOf(lo)
    ELSE LET mid == (lo + hi) \div 2
         IN LatencySum(lo, mid) + LatencySum(mid + 1, hi)

\* C13: get_basic_statistics gives avg_ping = (sum of the latencies recorded
\* since the last clear) / (their number), 0 when there is none; current_ping
\* = the latency of the newest sample, 0 when there is none; ping_count =
\* the number of successes since the clear.  None of them depends on the
\* failures recorded.  10, 20, 30, 40, 50 give average 30, count 5, loss 0.
C13_BasicStatistics ==
    LET basic == get_basic_statistics(data_manager)
        sum == LatencySum(1, Succeeded)
    IN /\ basic.ping_count = Succeeded
       /\ IF Succeeded = 0
          THEN basic.avg_ping = Zero /\ basic.current_ping = 0
          ELSE /\ SameNumber(basic.avg_ping, Frac(sum, Succeeded))
               /\ basic.current_ping = LatencyOf(Succeeded)
       /\ get_basic_statistics(add_ping_failure(data_manager)).avg_ping
            = basic.avg_ping
       /\ get_basic_statistics(add_ping_failure(data_manager)).current_ping
            = basic.current_ping
       /\ get_basic_statistics(add_ping_failure(data_manager)).ping_count
            = basic.ping_count
       /\ SameNumber(get_basic_statistics(Scenario5).avg_ping, Frac(30, 1))
       /\ get_basic_statistics(Scenario5).ping_count = 5
       /\ SameNumber(get_basic_statistics(Scenario5).packet_loss, Zero)

\* two successes, 10 then 30 ms, and two failures after them: the average is
\* 20, the current latency 30, the count 2
C13_Witness ==
    /\ Small
    /\ g_samples = << <<10, 0>>, <<30, 2>> >>
    /\ g_failures = 2
    /\ data_manager.failed_count = 2
    /\ SameNumber(get_basic_statistics(data_manager).avg_ping, Frac(20, 1))
    /\ get_basic_statistics(data_manager).current_ping = 30
    /\ get_basic_statistics(data_manager).ping_count = 2

\* ------------------------------------------- the quality label on its own
\* get_ping_quality_status called on an empty store and on one with data,
\* with every whole latency from 0 to MaxQualityInput
QualityStores ==
    { PingDataManager(MAX_PING_HISTORY, MAX_RECENT_PINGS), Scenario5 }

QualityInit ==
    /\ data_manager \in QualityStores
    /\ is_running = FALSE
    /\ test_timer = [active |-> FALSE, due |-> 0]
    /\ start_button = Button(TRUE)
    /\ stop_button = Button(FALSE)
    /\ ping_worker = [running |-> FALSE, domain |-> <<>>, interval |-> 1]
    /\ loops = [i \in Threads |-> IdleLoop]
    /\ queue = <<>>
    /\ clock = 0
    /\ g_samples = <<>>
    /\ g_failures = 0
    /\ g_probes = 0
    /\ g_completed = 0
    /\ g_delivered = 0
    /\ g_log = <<>>
    /\ g_dropped = FALSE
    /\ g_duration = 0
    /\ g_stopped_by = "none"
    /\ auto_range_enabled = TRUE
    /\ follow_mode_enabled = FALSE
    /\ follow_window_seconds = DEFAULT_FOLLOW_WINDOW
    /\ follow_window_input = [value |-> DEFAULT_FOLLOW_WINDOW, enabled |-> FALSE]
    /\ show_graph_controls = FALSE
    /\ graph_widget = PlotWidget
    /\ g_quality = NoCall
    /\ g_started_at = None
    /\ g_handler = "none"
    /\ AuxInit

CallGetPingQualityStatus ==
    /\ \E current_ping \in 0..MaxQualityInput :
         g_quality' = [ current_ping |-> current_ping,
                        result |-> get_ping_quality_status(data_manager,
                                                           current_ping) ]
    /\ UNCHANGED <<store_vars, gui_vars, worker_vars, clock, hist_vars,
                   view_vars, g_started_at, g_handler,
                   aux_vars>>

QualitySpec == QualityInit /\ [][CallGetPingQualityStatus]_vars

\* C14: the status text is Excellent below 50, Good from 50 to below 100,
\* Fair from 100 to below 200, Poor from 200 on; it is the same whatever the
\* store holds, and the call leaves the store as it was.
C14_QualityLabel ==
    /\ [](g_quality # NoCall =>
           LET x == g_quality.current_ping
               label == g_quality.result[1]
           IN /\ label \in {"Excellent", "Good", "Fair", "Poor"}
              /\ label = "Excellent" <=> x < 50
              /\ label = "Good" <=> (50 <= x /\ x < 100)
              /\ label = "Fair" <=> (100 <= x /\ x < 200)
              /\ label = "Poor" <=> x >= 200
              /\ \A other \in QualityStores :
                   get_ping_quality_status(other, x) = g_quality.result)
    /\ [][g_quality' # g_quality => data_manager' = data_manager]_vars

\* asked about exactly 50 ms on a store with data, the answer was Good
C14_Witness ==
    /\ g_quality.current_ping = 50
    /\ g_quality.result[1] = "Good"
    /\ has_data(data_manager)

\* C15: clear_data applied to any reachable store gives the store as
\* constructed: both history deques and recent_pings empty, ping_count,
\* failed_count and total_ping_time 0, min_ping the infinity, max_ping 0,
\* start_time None; applied a second time it changes nothing.
C15_ClearResets ==
    LET cleared == clear_data(data_manager) IN
    /\ cleared = PingDataManager(data_manager.max_history,
                                 data_manager.max_recent)
    /\ cleared.ping_times = <<>> /\ cleared.timestamps = <<>>
    /\ cleared.recent_pings = <<>>
    /\ cleared.ping_count = 0 /\ cleared.failed_count = 0
    /\ cleared.total_ping_time = 0
    /\ cleared.min_ping = Inf /\ cleared.max_ping = 0
    /\ cleared.start_time = None
    /\ clear_data(cleared) = cleared
    /\ (Succeeded = 0 /\ g_failures = 0 /\ data_manager.start_time = None)
          => data_manager = cleared

\* a store in which every field differs from the constructed one (samples
\* past the history's capacity, failures, a start time) and is cleared back
\* to it
C15_Witness ==
    /\ Small
    /\ Succeeded = 4
    /\ g_failures = 1
    /\ data_manager.start_time = 2
    /\ data_manager.max_ping = 30
    /\ data_manager.min_ping = 10
    /\ data_manager # clear_data(data_manager)
    /\ clear_data(data_manager) = PingDataManager(HistCap, RecentCap)

\* C16: has_data() is true exactly when ping_count > 0, and exactly when a
\* success was recorded since the last clear; failures alone leave it false.
C16_HasData ==
    /\ has_data(data_manager) <=> data_manager.ping_count > 0
    /\ has_data(data_manager) <=> Succeeded > 0
    /\ ~has_data(add_ping_failure(clear_data(data_manager)))

\* failures and no success: no data
C16_Witness ==
    /\ g_failures = 2
    /\ data_manager.failed_count = 2
    /\ Succeeded = 0
    /\ ~has_data(data_manager)

\* ------------------------------------------------------ start of a session
\* C17: right after start_test with a non-blank target the history, the
\* timestamps and recent_pings are empty, ping_count and failed_count are 0,
\* start_time is the instant of the start and is_running is true; every
\* elapsed time recorded later is the clock at the recording minus that
\* instant, and is not negative.
C17_StartResets ==
    /\ [][NumStarted' = NumStarted + 1 =>
            /\ data_manager'.ping_times = <<>>
            /\ data_manager'.timestamps = <<>>
            /\ data_manager'.recent_pings = <<>>
            /\ data_manager'.ping_count = 0
            /\ data_manager'.failed_count = 0
            /\ data_manager'.start_time = clock
            /\ data_manager'.start_time # None
            /\ is_running']_vars
    /\ [][Len(g_samples') = Len(g_samples) + 1 =>
            LET elapsed == g_samples'[Len(g_samples')][2] IN
            /\ elapsed = clock - g_started_at
            /\ elapsed >= 0
            /\ g_started_at # None
            /\ data_manager'.timestamps[Len(data_manager'.timestamps)]
                 = elapsed]_vars

\* the second session, started at clock 1 after a session that had recorded
\* data, has recorded its first sample at clock 2: elapsed time 1
C17_Witness ==
    /\ NumStarted = 2
    /\ g_started_at = 1
    /\ data_manager.start_time = 1
    /\ clock = 2
    /\ data_manager.timestamps = <<1>>
    /\ Succeeded = 1

\* ------------------------------------------------------------------ the view
\* the step ran update_graph_view: a sample was recorded, follow mode was
\* toggled with data in the store, or the window was changed in follow mode
\* with data in the store
SampleRecorded == Len(g_samples') = Len(g_samples) + 1
ViewUpdated ==
    \/ SampleRecorded
    \/ /\ has_data(data_manager)
       /\ \/ follow_mode_enabled' # follow_mode_enabled
          \/ follow_mode_enabled /\ follow_window_seconds' # follow_window_seconds
\* the step was a zoom or pan by the user, reported by the chart
UserChanged ==
    /\ graph_widget' # graph_widget
    /\ ~graph_widget'.auto
    /\ \E xr \in UserXRanges :
         graph_widget'.xRange = << FInt(xr[1]), FInt(xr[2]) >>
    /\ graph_widget'.yRange = << FInt(UserYRange[1]), FInt(UserYRange[2]) >>

\* the range the follow window asks for, from the history T (elapsed times)
\* and P (latencies) and the window W; the latency bounds are in tenths of ms
FollowXLow(T, W) == ListMax(T) - W
FollowXHigh(T) == ListMax(T)
InWindow(T, W) == {i \in 1..Len(T) : T[i] >= ListMax(T) - W}
WindowLow(T, P, W) == ListMin([i \in 1..Len(T) |->
                         IF i \in InWindow(T, W) THEN P[i] ELSE Inf])
WindowHigh(T, P, W) == ListMax([i \in 1..Len(T) |->
                          IF i \in InWindow(T, W) THEN P[i] ELSE 0])
Pad10(T, P, W) == Max2(WindowHigh(T, P, W) - WindowLow(T, P, W), 100)
FollowYLow10(T, P, W) == Max2(0, 10 * WindowLow(T, P, W) - Pad10(T, P, W))
FollowYHigh10(T, P, W) == 10 * WindowHigh(T, P, W) + Pad10(T, P, W)

\* C18: when update_graph_view runs in follow mode with a non-empty history
\* the chart is set to the time range [max(elapsed) - window, max(elapsed)]
\* and the latency range [max(0, lo - pad), hi + pad], lo and hi the least
\* and greatest latency among the samples with elapsed >= window start, pad
\* the greater of a tenth of hi - lo and 10.
C18_FollowWindow ==
    [][(ViewUpdated /\ follow_mode_enabled' /\ has_data(data_manager')) =>
         LET T == data_manager'.timestamps
             P == data_manager'.ping_times
             W == follow_window_seconds'
         IN /\ ~graph_widget'.auto
            /\ graph_widget'.xRange[1] = FInt(FollowXLow(T, W))
            /\ graph_widget'.xRange[2] = FInt(FollowXHigh(T))
            /\ SameNumber(graph_widget'.yRange[1], Frac(FollowYLow10(T, P, W), 10))
            /\ SameNumber(graph_widget'.yRange[2], Frac(FollowYHigh10(T, P, W), 10))
      ]_vars

\* follow mode, window 10, samples at 0, 5, 12, 18 s of 10, 20, 30, 15 ms:
\* the chart shows 8..18 s and 5..40 ms
C18_Witness ==
    /\ follow_mode_enabled
    /\ follow_window_seconds = 10
    /\ data_manager.timestamps = <<0, 5, 12, 18>>
    /\ data_manager.ping_times = <<10, 20, 30, 15>>
    /\ graph_widget = [ auto   |-> FALSE,
                        xRange |-> << FInt(8), FInt(18) >>,
                        yRange |-> << FInt(5), FInt(40) >> ]

\* C19: a new sample moves the chart to the follow window when follow mode
\* is on; otherwise it asks the chart to fit the data when auto_range_enabled
\* is set; with neither flag set it leaves the chart exactly as the user set
\* it.  With an empty history update_graph_view does nothing.
C19_ViewPrecedence ==
    /\ [][SampleRecorded =>
            /\ follow_mode_enabled =>
                 /\ ~graph_widget'.auto
                 /\ graph_widget'.xRange[2]
                      = FInt(FollowXHigh(data_manager'.timestamps))
                 /\ graph_widget'.xRange[1]
                      = FInt(FollowXLow(data_manager'.timestamps,
                                        follow_window_seconds))
            /\ (~follow_mode_enabled /\ auto_range_enabled) =>
                 /\ graph_widget'.auto
                 /\ graph_widget'.xRange = graph_widget.xRange
                 /\ graph_widget'.yRange = graph_widget.yRange
            /\ (~follow_mode_enabled /\ ~auto_range_enabled) =>
                 graph_widget' = graph_widget
         ]_vars
    /\ [](\A follow \in BOOLEAN, auto \in BOOLEAN :
            update_graph_view(clear_data(data_manager), follow, auto,
                              follow_window_seconds, graph_widget)
              = graph_widget)

\* neither flag is set and the chart shows what the user chose while the
\* history held the sample at 0 s only (the same choice made with both samples
\* in the history would have set auto_range_enabled): the sample at 5 s came
\* afterwards and left the chart alone
C19_Witness ==
    /\ is_running
    /\ ~follow_mode_enabled
    /\ ~auto_range_enabled
    /\ data_manager.timestamps = <<0, 5>>
    /\ graph_widget = [ auto   |-> FALSE,
                        xRange |-> << FInt(0), FInt(5) >>,
                        yRange |-> << FInt(0), FInt(100) >> ]

\* the right edge the user's zoom or pan left, in seconds
ReportedRight == graph_widget'.xRange[2].num
\* the reported right edge is further than a tenth of span20/20 from
\* right20/20 (the expected right edge and the expected span, in twentieths
\* of a second)
FarFrom(right20, span20) ==
    LET diff20 == 20 * ReportedRight - right20
        abs20 == IF diff20 < 0 THEN 0 - diff20 ELSE diff20
    IN 10 * abs20 > span20
\* against the full span of the history's elapsed times padded by 5% on each
\* side, for a history that has a span
FarFromPaddedSpan ==
    LET T == data_manager.timestamps
        d == ListMax(T) - ListMin(T)
    IN d > 0 /\ FarFrom(20 * ListMax(T) + d, 22 * d)
\* against what on_range_changed expects: the padded span (padded by 1 s when
\* the span is 0) of a history of two samples or more, -1..1 for one sample
FarFromExpected ==
    LET T == data_manager.timestamps
        d == ListMax(T) - ListMin(T)
    IN IF Len(T) > 1
       THEN IF d > 0 THEN FarFrom(20 * ListMax(T) + d, 22 * d)
                     ELSE FarFrom(20 * ListMax(T) + 20, 40)
       ELSE FarFrom(20, 40)

ViewHandlerRan(name) ==
    /\ g_handler' = name
    /\ UNCHANGED session_vars
\* the step was the chart fitting its range to the data and reporting it
ChartFitted ==
    /\ ViewHandlerRan("on_range_changed")
    /\ graph_widget'.auto
    /\ graph_widget' # graph_widget

\* C21: a view change that is the chart's own fit to the data never clears
\* auto_range_enabled, whatever the non-empty history, a history of one
\* sample at any elapsed time included.
C21_OwnFitKeepsAutoRange ==
    [][(ChartFitted /\ auto_range_enabled) => auto_range_enabled']_vars

\* C22: turning follow mode off with the button leaves auto_range_enabled
\* true, and so does a reset-view request, which also leaves
\* follow_mode_enabled false; from any view state.
C22_ExitFollowAndReset ==
    /\ [][(ViewHandlerRan("on_graph_view_button_clicked")
             /\ follow_mode_enabled)
            => (~follow_mode_enabled' /\ auto_range_enabled')]_vars
    /\ [][ViewHandlerRan("reset_view")
            => (auto_range_enabled' /\ ~follow_mode_enabled')]_vars

\* reset view was requested in a session with data after a zoom had cleared
\* auto_range_enabled: the flag is set, follow mode is off and the chart, which
\* still shows the zoomed range, is back in auto-range
C22_Witness ==
    /\ g_handler = "reset_view"
    /\ auto_range_enabled
    /\ ~follow_mode_enabled
    /\ has_data(data_manager)
    /\ graph_widget = [ auto   |-> TRUE,
                        xRange |-> << FInt(6), FInt(12) >>,
                        yRange |-> << FInt(0), FInt(100) >> ]

\* C23: follow_mode_enabled and auto_range_enabled are never both true.
C23_ModesExclusive == ~(follow_mode_enabled /\ auto_range_enabled)

\* both flags false: a zoom in a running session has cleared
\* auto_range_enabled and follow mode is off
C23_Witness ==
    /\ ~follow_mode_enabled
    /\ ~auto_range_enabled
    /\ is_running
    /\ g_handler = "on_range_changed"
    /\ ~graph_widget.auto

\* the step turned auto_range_enabled back on
AutoRangeBackOn == ~auto_range_enabled /\ auto_range_enabled'
\* the three ways back: the button leaving follow mode, a reset-view
\* request, a session starting with follow mode off
AllowedWayBack ==
    \/ ViewHandlerRan("on_graph_view_button_clicked") /\ follow_mode_enabled
    \/ ViewHandlerRan("reset_view")
    \/ NumStarted' = NumStarted + 1 /\ ~follow_mode_enabled

\* C30: auto_range_enabled goes from false to true only by leaving follow
\* mode, by a reset-view request or by a session starting with follow mode
\* off; a view change the chart reports never turns it back on.
C30_OnlyThreeWaysBack ==
    [][AutoRangeBackOn => AllowedWayBack]_vars

\* the step handed a notification to its slot and the slot recorded it in the
\* store, as a sample or as a failure
OutcomeRecorded ==
    /\ g_delivered' = g_delivered + 1
    /\ \/ Len(g_samples') = Len(g_samples) + 1
       \/ g_failures' = g_failures + 1

\* C27: whatever is recorded in the store of a session comes from a probe
\* issued after that session's start (g_session is the number of sessions
\* started when the probe was issued); the outcome of a probe issued in an
\* earlier session is never counted in the new one.
C27_SessionIsolation ==
    [][OutcomeRecorded => Head(queue).g_session = NumStarted]_vars

\* C28: between the handlers of the GUI thread the three run indicators
\* agree: is_running, the worker's running flag and the auto-stop timer being
\* armed are all true after start_test, all false initially and after
\* stop_test.
C28_RunIndicatorsAgree ==
    /\ is_running = ping_worker.running
    /\ is_running = test_timer.active

\* the timer has stopped a session that had been started after a click on
\* stop: the three indicators are false
C28_Witness ==
    /\ g_stopped_by = "timer"
    /\ NumStarted = 2
    /\ ~is_running /\ ~ping_worker.running /\ ~test_timer.active

\* C29: a store with data has a start time: samples are recorded only while
\* a session that set start_time is running, and the history is emptied
\* whenever start_time is unset.
C29_DataHasStartTime ==
    has_data(data_manager) => data_manager.start_time # None

\* a stopped session that has kept its sample and its start time
C29_Witness ==
    /\ has_data(data_manager)
    /\ data_manager.start_time # None
    /\ ~is_running

\* ------------------------------------------------- the connectivity test
\* what subprocess.run does in NetworkTester._ping_host: the command exits,
\* with a return code, or run raises (the 3 s timeout, no ping command)
TestRuns == { "exit 0", "exit 1", "exit 2", "TimeoutExpired", "OSError" }
\* NetworkTester._ping_host: result.returncode == 0, and False on any
\* exception
NetworkTester_ping_host(run) == run = "exit 0"

\* test_completed.emit(success, message); host is the host the message names
TestCompleted(success, host) == [success |-> success, host |-> host]

\* a thread function that goes on to the next host after a success
test_connection_thread_no_return(t) ==
    IF t.host < Len(NETWORK_TEST_HOSTS)
    THEN [ thread  |-> [t EXCEPT !.pc = "probe", !.host = @ + 1,
                                 !.g_probed =
                                    Append(@, NETWORK_TEST_HOSTS[t.host + 1])],
           emitted |-> IF t.result
                       THEN << TestCompleted(TRUE, NETWORK_TEST_HOSTS[t.host]) >>
                       ELSE << >> ]
    ELSE [ thread  |-> [t EXCEPT !.pc = "done"],
           emitted |-> IF t.result
                       THEN << TestCompleted(TRUE, NETWORK_TEST_HOSTS[t.host]),
                               TestCompleted(FALSE, "") >>
                       ELSE << TestCompleted(FALSE, "") >> ]

\* _test_connection_thread from the return of _ping_host(host) to the next
\* _ping_host call or to the end of the thread: the thread after it and the
\* signals it has emitted
test_connection_thread(t) ==
    IF t.result
    THEN [ thread  |-> [t EXCEPT !.pc = "done"],
           emitted |-> << TestCompleted(TRUE, NETWORK_TEST_HOSTS[t.host]) >> ]
    ELSE IF t.host < Len(NETWORK_TEST_HOSTS)
    THEN [ thread  |-> [t EXCEPT !.pc = "probe", !.host = @ + 1,
                                 !.g_probed =
                                    Append(@, NETWORK_TEST_HOSTS[t.host + 1])],
           emitted |-> << >> ]
    ELSE [ thread  |-> [t EXCEPT !.pc = "done"],
           emitted |-> << TestCompleted(FALSE, "") >> ]

\* test_network_connection, the slot of the network test button's click:
\* the button is disabled and test_connection starts a thread, which enters
\* the loop and calls _ping_host for the first host
test_network_connection ==
    /\ network_test_button
    /\ NumTests < MaxTests
    /\ network_test_button' = FALSE
    /\ network_tester' =
         [network_tester EXCEPT ![NumTests + 1] =
            [IdleTester EXCEPT !.pc = "probe", !.host = 1,
                               !.g_probed = << NETWORK_TEST_HOSTS[1] >>]]
    /\ UNCHANGED <<main_vars, net_queue, g_reports, g_probe, g_export>>

\* _ping_host returns in thread i
TesterPingHostReturns(i) ==
    /\ network_tester[i].pc = "probe"
    /\ \E run \in TestRuns :
         network_tester' =
           [network_tester EXCEPT
              ![i].pc = "got",
              ![i].result = NetworkTester_ping_host(run),
              ![i].g_results = Append(@, NetworkTester_ping_host(run))]
    /\ UNCHANGED <<main_vars, network_test_button, net_queue, g_reports,
                   g_probe, g_export>>

\* thread i goes on from the return of _ping_host; what it emits is queued
\* for the GUI thread
TesterStep(i) ==
    /\ network_tester[i].pc = "got"
    /\ LET r == test_connection_thread(network_tester[i]) IN
         /\ network_tester' =
              [network_tester EXCEPT
                 ![i] = [r.thread EXCEPT !.g_emitted = @ \o r.emitted]]
         /\ net_queue' = net_queue \o r.emitted
    /\ UNCHANGED <<main_vars, network_test_button, g_reports, g_probe,
                   g_export>>

\* on_network_test_completed, the slot of test_completed: the button is
\* enabled again and the message is shown
on_network_test_completed ==
    /\ net_queue # <<>>
    /\ network_test_button' = TRUE
    /\ g_reports' = Append(g_reports, Head(net_queue))
    /\ net_queue' = Tail(net_queue)
    /\ UNCHANGED <<main_vars, network_tester, g_probe, g_export>>

NetNext ==
    \/ test_network_connection
    \/ \E i \in Tests : TesterPingHostReturns(i)
    \/ \E i \in Tests : TesterStep(i)
    \/ on_network_test_completed

NetSpec == Init /\ [][NetNext]_vars

\* subprocess.run returns within its timeout and a started thread runs on;
\* the event loop delivers what is queued
FairNet ==
    /\ NetSpec
    /\ \A i \in Tests : WF_vars(TesterPingHostReturns(i))
    /\ \A i \in Tests : WF_vars(TesterStep(i))
    /\ WF_vars(on_network_test_completed)

\* p is the beginning of s
IsPrefix(p, s) ==
    /\ Len(p) <= Len(s)
    /\ \A k \in 1..Len(p) : p[k] = s[k]

\* what the history of one connectivity test must look like at any time
TestInOrder(t) ==
    LET k == Len(t.g_results) IN
    /\ IsPrefix(t.g_probed, NETWORK_TEST_HOSTS)
    /\ Len(t.g_probed) - k \in {0, 1}
    /\ \A j \in 1..(k - 1) : ~t.g_results[j]
    /\ Len(t.g_emitted) <= 1
    /\ (t.pc = "done") <=> (Len(t.g_emitted) = 1)
    /\ Len(t.g_emitted) = 1 =>
         LET m == t.g_emitted[1] IN
         /\ Len(t.g_probed) = k
         /\ m.success <=> t.g_results[k]
         /\ m.success => m.host = NETWORK_TEST_HOSTS[k]
         /\ ~m.success => (k = Len(NETWORK_TEST_HOSTS) /\ m.host = "")

\* C24: one connectivity test probes NETWORK_TEST_HOSTS in list order, one
\* probe at a time and each host at most once, stops at the first host that
\* answers and reports success naming it, reports failure only when every
\* host has failed, and emits test_completed exactly once for every
\* test_connection call.
C24_ConnectivityTest ==
    /\ [](\A i \in Tests : TestInOrder(network_tester[i]))
    /\ \A i \in Tests :
         (network_tester[i].pc # "idle")
            ~> (Len(network_tester[i].g_emitted) = 1)

\* the first test stopped at the second host and reported it, the second
\* test probed the three hosts and reported the failure
C24_Witness ==
    /\ network_tester[1].g_results = << FALSE, TRUE >>
    /\ network_tester[1].g_probed = << "8.8.8.8", "1.1.1.1" >>
    /\ network_tester[2].g_results = << FALSE, FALSE, FALSE >>
    /\ g_reports = << TestCompleted(TRUE, "1.1.1.1"), TestCompleted(FALSE, "") >>
    /\ network_test_button

\* ------------------------------------------- PingWorker._ping_host on its own
\* The output of the ping command is a sequence of items: the words the two
\* patterns look for, numbers, blanks and other text.
Item(t, v) == [t |-> t, v |-> v]
StdoutItems ==
    { Item("time=", Zero), Item("time<", Zero), Item("ms", Zero),
      Item(" ", Zero), Item("text", Zero),
      Item("number", FInt(10)), Item("number", Frac(25, 2)) }
\* a number written with digits only
Digits(item) == item.t = "number" /\ item.v.den = 1
\* outputs of up to MaxStdout items; two numbers in a row would read as one
Stdouts ==
    { out \in UNION { [1..n -> StdoutItems] : n \in 0..MaxStdout } :
        \A k \in 1..(Len(out) - 1) :
           ~(out[k].t = "number" /\ out[k + 1].t = "number") }
\* platform.system().lower()
Systems == { "windows", "linux" }
\* what subprocess.run does: the command exits with a return code and an
\* output, or run raises (the 5 s timeout, no ping command, ...)
Runs ==
    [ raised : {"TimeoutExpired", "FileNotFoundError", "OSError"},
      returncode : {0}, stdout : {<< >>} ]
    \cup [ raised : {""}, returncode : {0, 1, 2}, stdout : Stdouts ]

\* the first item after position k that is not a blank (\s*)
RECURSIVE SkipBlanks(_, _)
SkipBlanks(output, k) ==
    IF k <= Len(output) /\ output[k].t = " "
    THEN SkipBlanks(output, k + 1)
    ELSE k
\* the pattern matches at position k of the output
MatchAt(system, output, k) ==
    IF system = "windows"
    THEN \* time[<=](\d+)ms
         /\ k + 2 <= Len(output)
         /\ output[k].t \in {"time=", "time<"}
         /\ Digits(output[k + 1])
         /\ output[k + 2].t = "ms"
    ELSE \* time=(\d+\.?\d*)\s*ms
         /\ k + 2 <= Len(output)
         /\ output[k].t = "time="
         /\ output[k + 1].t = "number"
         /\ SkipBlanks(output, k + 2) <= Len(output)
         /\ output[SkipBlanks(output, k + 2)].t = "ms"
\* re.search(pattern, output): the position of the leftmost match, 0 for none
re_search(system, output) ==
    LET found == {k \in 1..Len(output) : MatchAt(system, output, k)} IN
    IF found = {} THEN 0
    ELSE CHOOSE k \in found : \A j \in found : k <= j

\* what a call gives its caller: the exception it raised ("" for none) and
\* its return value, None or a float
ReturnsNone == [raised |-> "", none |-> TRUE, value |-> Zero]
Returns(value) == [raised |-> "", none |-> FALSE, value |-> value]

\* _ping_host without the test of the return code
PingWorker_ping_host_any_exit(system, run) ==
    IF run.raised # ""
    THEN ReturnsNone
    ELSE LET match == re_search(system, run.stdout) IN
         IF match # 0 THEN Returns(run.stdout[match + 1].v)
         ELSE ReturnsNone

\* PingWorker._ping_host: the try block, and `except Exception: return None`
PingWorker_ping_host(system, run) ==
    IF run.raised # ""
    THEN ReturnsNone
    ELSE IF run.returncode = 0
    THEN LET match == re_search(system, run.stdout) IN
         IF match # 0 THEN Returns(run.stdout[match + 1].v)
         ELSE ReturnsNone
    ELSE ReturnsNone

\* one call, with any platform and any outcome of the command
CallPingHost ==
    /\ g_probe = NoProbe
    /\ \E system \in Systems, run \in Runs :
         g_probe' = [ system |-> system, run |-> run,
                      result |-> PingWorker_ping_host(system, run) ]
    /\ UNCHANGED <<main_vars, network_test_button, network_tester, net_queue,
                   g_reports, g_export>>

ProbeSpec == Init /\ [][CallPingHost]_vars

\* the output holds a time token for this platform: time= or (windows)
\* time<, a number (digits only on windows), then ms, after blanks or not on
\* the other platforms
TimeTokenAt(system, output, k) ==
    /\ output[k].t = "time=" \/ (system = "windows" /\ output[k].t = "time<")
    /\ k + 1 <= Len(output)
    /\ output[k + 1].t = "number"
    /\ system = "windows" => output[k + 1].v.den = 1
    /\ \E m \in (k + 2)..Len(output) :
         /\ output[m].t = "ms"
         /\ \A j \in (k + 2)..(m - 1) : output[j].t = " "
         /\ system = "windows" => m = k + 2
HasTimeToken(system, output) ==
    \E k \in 1..Len(output) : TimeTokenAt(system, output, k)

\* C25: _ping_host never raises to the loop and has two outcomes: a latency
\* when the command exits 0 and its output holds a time token, the latency
\* being the number of a token; None in every other case (run raised, the
\* exit code is not 0, or no time token in the output).
C25_ProbeOutcomes ==
    g_probe # NoProbe =>
      LET run == g_probe.run
          result == g_probe.result
          latency == /\ run.raised = ""
                     /\ run.returncode = 0
                     /\ HasTimeToken(g_probe.system, run.stdout)
      IN /\ result.raised = ""
         /\ result.none <=> ~latency
         /\ ~result.none =>
              \E k \in 1..Len(run.stdout) :
                 /\ TimeTokenAt(g_probe.system, run.stdout, k)
                 /\ result.value = run.stdout[k + 1].v

\* the command exited 0 with `time=12.5 ms` after other text, on linux: the
\* latency is 12.5
C25_Witness ==
    /\ g_probe.system = "linux"
    /\ g_probe.run = [ raised |-> "", returncode |-> 0,
                       stdout |-> << Item("text", Zero), Item("time=", Zero),
                                     Item("number", Frac(25, 2)),
                                     Item("ms", Zero) >> ]
    /\ g_probe.result = Returns(Frac(25, 2))

\* ------------------------------------------------------------- the export
\* f"{elapsed_time:.3f}" and f"{ping_time:.1f}": the decimal text, read as a
\* count of thousandths and of tenths
format_3f(x) == x * 1000
format_1f(x) == x * 10
\* zip(self.timestamps, self.ping_times)
zip(xs, ys) == [i \in 1..Min2(Len(xs), Len(ys)) |-> << xs[i], ys[i] >>]

\* a writer that puts the newest sample first
write_csv_file_newest_first(self, fails_after) ==
    LET pairs == zip(self.timestamps, self.ping_times)
        n == Len(pairs)
        rows == [i \in 1..n |-> << format_3f(pairs[n + 1 - i][1]),
                                   format_1f(pairs[n + 1 - i][2]) >>]
    IN IF fails_after = None
       THEN [raised |-> FALSE, rows |-> rows]
       ELSE [raised |-> TRUE, rows |-> SubSeq(rows, 1, Min2(fails_after, n))]

\* _write_csv_file: the data rows written (elapsed and latency columns); the
\* write raises at open or after fails_after rows when fails_after is not
\* None
write_csv_file(self, fails_after) ==
    LET pairs == zip(self.timestamps, self.ping_times)
        n == Len(pairs)
        rows == [i \in 1..n |-> << format_3f(pairs[i][1]),
                                   format_1f(pairs[i][2]) >>]
    IN IF fails_after = None
       THEN [raised |-> FALSE, rows |-> rows]
       ELSE [raised |-> TRUE, rows |-> SubSeq(rows, 1, Min2(fails_after, n))]

\* QFileDialog.getSaveFileName: a path, or the empty string when cancelled
FilePaths == { "", "ping_data.csv" }
\* the write goes through, or raises after this many rows
WriteFailures == { None, 0, 1 }

Ended(outcome, rows) ==
    [ pc |-> "idle", outcome |-> outcome, rows |-> rows,
      g_outcomes |-> Append(g_export.g_outcomes, outcome) ]

\* PingPoller.export_to_csv, the slot of the export button's click, to the
\* opening of the file dialog.  The button is disabled until the first
\* start_test and enabled by every start_test.
export_to_csv ==
    /\ NumStarted > 0
    /\ g_export.pc = "idle"
    /\ Len(g_export.g_outcomes) < MaxExports
    /\ g_export' = IF ~has_data(data_manager)
                   THEN Ended("no data", << >>)
                   ELSE [g_export EXCEPT !.pc = "dialog"]
    /\ UNCHANGED <<main_vars, network_test_button, network_tester, net_queue,
                   g_reports, g_probe>>

\* export_to_csv from the return of the file dialog
FileDialogCloses ==
    /\ g_export.pc = "dialog"
    /\ \E file_path \in FilePaths, fails_after \in WriteFailures :
         g_export' =
           IF file_path = ""
           THEN Ended("cancelled", << >>)
           ELSE LET written == write_csv_file(data_manager, fails_after)
                IN IF written.raised THEN Ended("error", written.rows)
                                     ELSE Ended("written", written.rows)
    /\ UNCHANGED <<main_vars, network_test_button, network_tester, net_queue,
                   g_reports, g_probe>>

\* the file dialog is modal: no click reaches the main window while it is
\* open; signals and timers are served by the dialog's event loop
ClickInMainWindow ==
    /\ g_export.pc # "dialog"
    /\ ClickStart \/ ClickStop

ExportNext ==
    \/ ClickInMainWindow
    \/ TimerTimeout
    \/ ButtonsFaded
    \/ ViewTick
    \/ SlotPingResult
    \/ export_to_csv
    \/ FileDialogCloses

ExportSpec == Init /\ [][ExportNext]_vars

\* the step is a step of an export
ExportStep == g_export' # g_export
\* the rows are the successes recorded since the store was cleared, oldest
\* first, one row each
RowsAreHistory(rows) ==
    /\ Len(rows) = Succeeded
    /\ \A k \in 1..Succeeded :
         rows[k] = << 1000 * ElapsedOf(k), 10 * LatencyOf(k) >>
    /\ \A k \in 1..(Len(rows) - 1) : rows[k][1] <= rows[k + 1][1]

\* C26: no step of an export changes the store (history, recent buffer,
\* aggregates, start_time), whether the export ends written, cancelled,
\* refused for lack of data or with a write error; the rows of a written
\* export are the whole history, oldest first, one row per sample.
C26_ExportLeavesSession ==
    [][ExportStep =>
         /\ data_manager' = data_manager
         /\ g_samples' = g_samples
         /\ (g_export'.pc = "idle" /\ g_export'.outcome = "written")
              => RowsAreHistory(g_export'.rows)
         /\ (g_export'.pc = "idle" /\ g_export'.outcome = "no data")
              => Succeeded = 0
      ]_vars

\* an export that failed after one row and a later one that wrote the same
\* two samples
C26_Witness ==
    /\ g_export.g_outcomes = << "error", "written" >>
    /\ g_export.rows = << << 0, 100 >>, << 5000, 200 >> >>
    /\ Len(data_manager.ping_times) = 2

=============================================================================
